---- MODULE Spec2Model ----
(***************************************************************************)
(* youtube-sync (src/youtube-sync/youtube-sync.py): a command line tool    *)
(* that mirrors a remote playlist into a folder.  The model holds the      *)
(* files of the target directory, the remote playlist, and the one         *)
(* process that runs `youtube-sync [--init LINK] [--sync]`.                 *)
(*                                                                         *)
(* Python dicts are association lists (sequences of <<key, value>>) in     *)
(* insertion order, the order json.dump / json.load and list(d.keys())     *)
(* keep.  Titles and ids are small integers.                               *)
(*                                                                         *)
(* youtube_dl is the external fetcher.  Its part here is what              *)
(* YoutubeDL.extract_info(link, download=True) does with the option        *)
(* download_archive set: an entry whose id is a line of archive.txt is     *)
(* skipped with the log line "[download] <title> has already been          *)
(* recorded in archive" and is not part of the returned entries; any       *)
(* other entry is downloaded to outtmpl, appended to archive.txt and       *)
(* returned.  Every download succeeds.                                     *)
(***************************************************************************)
EXTENDS Integers, Sequences, FiniteSets, TLC

VARIABLES fs, remote, pc, run_log, h_stable

vars == <<fs, remote, pc, run_log, h_stable>>

\* ---------------------------------------------------------------- bounds
NumTitles == 2
NumIds == 2
MaxEntries == 2

Titles == 1..NumTitles
Ids == 1..NumIds

\* ------------------------------------------------------------ the remote
\* Python's None, as returned by dict.get and as argparse's default.
None == "<None>"

\* The links the user can pass to --init: the empty string, the link of the
\* playlist, the link of a single video.
PlaylistLink == "PL"
VideoLink == "VID"
Links == {"", PlaylistLink, VideoLink}

PlaylistTitle == "PL"
\* The folder youtube_dl substitutes for %(playlist_title)s outside a playlist.
NoPlaylistFolder == "NA"
\* The single video behind VideoLink.
Video == [title |-> 1, id |-> 1]

Entry == [title : Titles, id : Ids]

\* ------------------------------------------------------------------ dicts
Keys(d) == {d[i][1] : i \in DOMAIN d}

DictGet(d, k, default) ==
    IF k \in Keys(d) THEN d[CHOOSE i \in DOMAIN d : d[i][1] = k][2] ELSE default

DictSet(d, k, v) ==
    IF k \in Keys(d)
    THEN [i \in DOMAIN d |-> IF d[i][1] = k THEN <<k, v>> ELSE d[i]]
    ELSE Append(d, <<k, v>>)

DictPop(d, k) == SelectSeq(d, LAMBDA p : p[1] # k)

ListKeys(d) == [i \in DOMAIN d |-> d[i][1]]

ListValues(d) == [i \in DOMAIN d |-> d[i][2]]

\* list.index(x): the first position of x.
Index(list, x) == CHOOSE i \in DOMAIN list : list[i] = x /\ \A j \in 1..(i - 1) : list[j] # x

InList(x, list) == \E i \in DOMAIN list : list[i] = x

\* d[k] == v
Maps(d, k, v) == \E i \in DOMAIN d : d[i] = <<k, v>>

\* A dict as the mapping it denotes (dict equality ignores order).
AsMap(d) == [k \in Keys(d) |-> DictGet(d, k, None)]

\* ------------------------------------------------------------------ files
NoFile == [exists |-> FALSE, data |-> <<>>]

ytdl_default_opts == << <<"outtmpl", "./%(playlist_title)s/%(title)s.%(ext)s">> >>

load_json(file, default_val) == IF ~file.exists THEN default_val ELSE file.data

write_json(data) == [exists |-> TRUE, data |-> data]

\* ------------------------------------------------------- the logger hook
AlreadyRecordedMsg(title) == <<"[download] ", title, " has already been recorded in archive">>

DestinationMsg(folder, title) == <<"[download] Destination: ", folder, title>>

\* re.match(r'\[download\] (?P<title>.*) has already been recorded in archive', msg)
ReMatch(msg) ==
    /\ Len(msg) = 3
    /\ msg[1] = "[download] "
    /\ msg[3] = " has already been recorded in archive"

debug(songs, msg) == IF ReMatch(msg) THEN DictPop(songs, msg[2]) ELSE songs

\* ------------------------------------------------------------ constructor
NewYoutubeSync(f) ==
    LET archive == load_json(f.sync_archive_json, <<>>)
    IN  [valid_dir |-> f.dir,
         sync_config |-> load_json(f.sync_config_conf, <<>>),
         ytdl_opts |-> load_json(f.ytdl_opts_conf, ytdl_default_opts),
         sync_archive |-> archive,
         remove_list |-> archive]

\* ------------------------------------------------------------------- init
init(w, playlist_link) ==
    LET s1 == [w.self EXCEPT !.sync_config = DictSet(@, "playlist_link", playlist_link)]
        f1 == IF ~s1.valid_dir THEN [w.fs EXCEPT !.dir = TRUE] ELSE w.fs
        f2 == IF ~f1.sync_config_conf.exists
              THEN [f1 EXCEPT !.sync_config_conf = write_json(s1.sync_config)]
              ELSE f1
        f3 == IF ~f2.ytdl_opts_conf.exists
              THEN [f2 EXCEPT !.ytdl_opts_conf = write_json(s1.ytdl_opts)]
              ELSE f2
    IN  [self |-> s1, fs |-> f3]

\* ------------------------------------------------------------ the fetcher
in_download_archive(f, id) == f.archive_txt.exists /\ InList(id, f.archive_txt.data)

record_download_archive(f, id) ==
    [f EXCEPT !.archive_txt = [exists |-> TRUE, data |-> Append(f.archive_txt.data, id)]]

download(f, folder, title) == [f EXCEPT !.media = @ \cup {<<folder, title>>}]

\* One entry of the resource: skipped when its id is recorded, else downloaded.
ProcessEntry(w, e, folder) ==
    IF in_download_archive(w.fs, e.id)
    THEN [w EXCEPT !.self.remove_list = debug(@, AlreadyRecordedMsg(e.title))]
    ELSE [w EXCEPT !.self.remove_list = debug(@, DestinationMsg(folder, e.title)),
                   !.fs = record_download_archive(download(@, folder, e.title), e.id),
                   !.entries = Append(@, e)]

RECURSIVE ProcessEntries(_, _, _)
ProcessEntries(w, entries, folder) ==
    IF entries = <<>> THEN w
    ELSE ProcessEntries(ProcessEntry(w, Head(entries), folder), Tail(entries), folder)

\* ytdl.extract_info(link, download=True): the world afterwards and the meta.
extract_info(w, link, playlist) ==
    IF link = VideoLink
    THEN LET r == ProcessEntry([self |-> w.self, fs |-> w.fs, entries |-> <<>>],
                               Video, NoPlaylistFolder)
         IN  [self |-> r.self, fs |-> r.fs,
              meta |-> [type |-> "video", extractor_key |-> "Youtube",
                        title |-> ToString(Video.title), entries |-> <<>>]]
    ELSE LET r == ProcessEntries([self |-> w.self, fs |-> w.fs, entries |-> <<>>],
                                 playlist, PlaylistTitle)
         IN  [self |-> r.self, fs |-> r.fs,
              meta |-> [type |-> "playlist", extractor_key |-> "YoutubePlaylist",
                        title |-> PlaylistTitle, entries |-> r.entries]]

\* ------------------------------------------------------------ reconciler
RECURSIVE ScanLines_keepLine(_, _, _, _)
ScanLines_keepLine(lines, rm_ids, rm_titles, acc) ==
    IF lines = <<>> THEN acc
    ELSE LET song_id == Head(lines)
         IN  ScanLines_keepLine(Tail(lines), rm_ids, rm_titles,
                 IF InList(song_id, rm_ids)
                 THEN [acc EXCEPT !.removed_songs =
                           Append(@, rm_titles[Index(rm_ids, song_id)]),
                                  !.kept = Append(@, song_id)]
                 ELSE [acc EXCEPT !.kept = Append(@, song_id)])

\* The pass over the lines of archive.txt: the lines kept and the titles removed.
RECURSIVE ScanLines(_, _, _, _)
ScanLines(lines, rm_ids, rm_titles, acc) ==
    IF lines = <<>> THEN acc
    ELSE LET song_id == Head(lines)
         IN  ScanLines(Tail(lines), rm_ids, rm_titles,
                 IF InList(song_id, rm_ids)
                 THEN [acc EXCEPT !.removed_songs =
                           Append(@, rm_titles[Index(rm_ids, song_id)])]
                 ELSE [acc EXCEPT !.kept = Append(@, song_id)])

\* One round of the loop over removed_songs: pop the key, delete the file glob finds.
RemoveSong_keepKey(w, key, playlist_title) ==
    IF <<playlist_title, key>> \notin w.fs.media
    THEN [w EXCEPT !.outcome = "IndexError"]
    ELSE [w EXCEPT !.fs.media = @ \ {<<playlist_title, key>>}]

RemoveSong_keepFile(w, key, playlist_title) ==
    [w EXCEPT !.self.sync_archive = DictPop(@, key)]

RemoveSong(w, key, playlist_title) ==
    LET popped == [w EXCEPT !.self.sync_archive = DictPop(@, key)]
    IN  IF <<playlist_title, key>> \notin w.fs.media
        THEN [popped EXCEPT !.outcome = "IndexError"]
        ELSE [popped EXCEPT !.fs.media = @ \ {<<playlist_title, key>>}]

RECURSIVE RemoveSongs(_, _, _)
RemoveSongs(w, removed_songs, playlist_title) ==
    IF removed_songs = <<>> \/ w.outcome # "running" THEN w
    ELSE RemoveSongs(RemoveSong(w, Head(removed_songs), playlist_title),
                     Tail(removed_songs), playlist_title)

update_files_saveOnAbort(w, playlist_title) ==
    LET rm_ids == ListValues(w.self.remove_list)
        rm_titles == ListKeys(w.self.remove_list)
    IN  IF ~w.fs.archive_txt.exists
        THEN [w EXCEPT !.outcome = "FileNotFoundError"]
        ELSE LET scan == ScanLines(w.fs.archive_txt.data, rm_ids, rm_titles,
                                   [kept |-> <<>>, removed_songs |-> <<>>])
                 w1 == [w EXCEPT !.fs.archive_txt.data = scan.kept,
                                 !.lines = w.fs.archive_txt.data]
                 w2 == RemoveSongs(w1, scan.removed_songs, playlist_title)
             IN  [w2 EXCEPT !.fs.sync_archive_json = write_json(w2.self.sync_archive),
                            !.outcome = IF w2.outcome = "running" THEN "completed" ELSE @]

update_files(w, playlist_title) ==
    LET rm_ids == ListValues(w.self.remove_list)
        rm_titles == ListKeys(w.self.remove_list)
    IN  IF ~w.fs.archive_txt.exists
        THEN [w EXCEPT !.outcome = "FileNotFoundError"]
        ELSE LET scan == ScanLines(w.fs.archive_txt.data, rm_ids, rm_titles,
                                   [kept |-> <<>>, removed_songs |-> <<>>])
                 w1 == [w EXCEPT !.fs.archive_txt.data = scan.kept,
                                 !.lines = w.fs.archive_txt.data]
                 w2 == RemoveSongs(w1, scan.removed_songs, playlist_title)
             IN  IF w2.outcome # "running" THEN w2
                 ELSE [w2 EXCEPT !.fs.sync_archive_json = write_json(w2.self.sync_archive),
                                 !.outcome = "completed"]

\* ------------------------------------------------------------------- sync
\* `a is not b` on two strings compares the objects: values that differ are
\* never one object; equal values are one object exactly when both strings are
\* interned, as identifier-like literals are.
IsNot(a, b, interned) == a # b \/ ~interned

\* meta['_type'] is the literal the fetcher stores, interned like the literal of
\* line 127; meta['extractor_key'] is built at run time from the extractor's
\* class name and is never the object of a literal.
TypeInterned == TRUE
KeyInterned == FALSE

\* The test of line 127.
NotAPlaylist_keyIs(meta) ==
    /\ IsNot(meta.type, "playlist", TypeInterned)
    /\ ~IsNot(meta.extractor_key, "YoutubePlaylist", KeyInterned)

NotAPlaylist(meta) ==
    /\ IsNot(meta.type, "playlist", TypeInterned)
    /\ IsNot(meta.extractor_key, "YoutubePlaylist", KeyInterned)

RECURSIVE RecordEntries(_, _)
RecordEntries(archive, entries) ==
    IF entries = <<>> THEN archive
    ELSE RecordEntries(DictSet(archive, Head(entries).title, Head(entries).id), Tail(entries))

SetFetcherOpts_saved(w) ==
    LET opts == DictSet(DictSet(w.self.ytdl_opts, "download_archive", "archive.txt"),
                        "logger", "check_logger")
    IN  [w EXCEPT !.self.ytdl_opts = opts, !.fs.ytdl_opts_conf = write_json(opts)]

SetFetcherOpts(w) ==
    [w EXCEPT !.self.ytdl_opts =
        DictSet(DictSet(@, "download_archive", "archive.txt"), "logger", "check_logger")]

\* w = [self, fs, outcome, fetched, meta_type, lines]; playlist is what the
\* remote holds; lines is what the reconciler read from archive.txt.
sync(w, playlist) ==
    IF ~w.self.valid_dir THEN [w EXCEPT !.outcome = "invalid_dir"]
    ELSE IF DictGet(w.self.sync_config, "playlist_link", None) \in {None, ""}
    THEN [w EXCEPT !.outcome = "NoPlaylistLink"]
    ELSE LET w1 == SetFetcherOpts(w)
             r == extract_info(w1, DictGet(w1.self.sync_config, "playlist_link", None), playlist)
             w2 == [w1 EXCEPT !.self = r.self, !.fs = r.fs, !.fetched = TRUE,
                              !.meta_type = r.meta.type]
         IN  IF NotAPlaylist(r.meta)
             THEN [w2 EXCEPT !.outcome = "NotYoutubePlaylist"]
             ELSE update_files([w2 EXCEPT !.self.sync_archive = RecordEntries(@, r.meta.entries)],
                               r.meta.title)

\* ------------------------------------------------------- the command line
\* __main__ for the arguments cmd = [playlist_link, sync]: construct the
\* object, run init when --init gave a link, run sync when --sync is set.
\* after_init is the directory as sync finds it.
main(f, playlist, cmd) ==
    LET w0 == [self |-> NewYoutubeSync(f), fs |-> f]
        w1 == IF cmd.playlist_link # None THEN init(w0, cmd.playlist_link) ELSE w0
        w2 == [self |-> w1.self, fs |-> w1.fs, outcome |-> "running",
               fetched |-> FALSE, meta_type |-> "none", lines |-> <<>>]
        w3 == IF cmd.sync THEN sync(w2, playlist) ELSE [w2 EXCEPT !.outcome = "none"]
    IN  [fs |-> w3.fs, after_init |-> w1.fs, outcome |-> w3.outcome,
         fetched |-> w3.fetched, meta_type |-> w3.meta_type,
         lines |-> w3.lines, remove_list |-> w3.self.remove_list]

\* ------------------------------------------------------------------ state
\* fs: the target directory; remote: the playlist behind PlaylistLink;
\* pc: "shell" between invocations, "exit" when one has just ended;
\* run_log: what the invocation that has just ended was given and found
\* (start: the directory it started on, pre: the directory sync was called on,
\* snapshot: the playlist the fetcher saw, lines: the lines the reconciler read
\* from archive.txt, remove_list: the removal working set when the invocation
\* ended, stable: the previous sync completed and the playlist has not changed
\* since); h_stable: the same, for the next one.
EmptyDir == [dir |-> FALSE, sync_config_conf |-> NoFile, ytdl_opts_conf |-> NoFile,
             sync_archive_json |-> NoFile, archive_txt |-> NoFile, media |-> {}]

NoRun == [cmd |-> [playlist_link |-> None, sync |-> FALSE], start |-> EmptyDir,
          pre |-> EmptyDir, outcome |-> "none", fetched |-> FALSE, meta_type |-> "none",
          snapshot |-> <<>>, lines |-> <<>>, remove_list |-> <<>>, stable |-> FALSE]

Init ==
    /\ fs = EmptyDir
    /\ remote = <<>>
    /\ pc = "shell"
    /\ run_log = NoRun
    /\ h_stable = FALSE

\* ------------------------------------------------------- the remote side
RemoteIds == {remote[i].id : i \in DOMAIN remote}

Archive == load_json(fs.sync_archive_json, <<>>)

RemoteAdd ==
    /\ pc = "shell"
    /\ Len(remote) < MaxEntries
    /\ \E e \in Entry :
          /\ e.id \notin RemoteIds
          /\ remote' = Append(remote, e)
    /\ h_stable' = FALSE
    /\ UNCHANGED <<fs, pc, run_log>>

RemoteRemove ==
    /\ pc = "shell"
    /\ \E i \in DOMAIN remote :
          remote' = [j \in 1..(Len(remote) - 1) |-> IF j < i THEN remote[j] ELSE remote[j + 1]]
    /\ h_stable' = FALSE
    /\ UNCHANGED <<fs, pc, run_log>>

RemoteRename ==
    /\ pc = "shell"
    /\ \E i \in DOMAIN remote, t \in Titles :
          /\ t # remote[i].title
          /\ remote' = [remote EXCEPT ![i].title = t]
    /\ h_stable' = FALSE
    /\ UNCHANGED <<fs, pc, run_log>>

\* ------------------------------------------------------------ the process
Invoke(cmd) ==
    /\ pc = "shell"
    /\ LET r == main(fs, remote, cmd)
       IN  /\ fs' = r.fs
           /\ run_log' = [cmd |-> cmd, start |-> fs, pre |-> r.after_init,
                          outcome |-> r.outcome, fetched |-> r.fetched,
                          meta_type |-> r.meta_type, snapshot |-> remote,
                          lines |-> r.lines, remove_list |-> r.remove_list,
                          stable |-> h_stable]
           /\ h_stable' = IF cmd.sync THEN r.outcome = "completed" ELSE h_stable
    /\ pc' = "exit"
    /\ UNCHANGED remote

\* youtube-sync --init LINK
InitCmd == \E l \in Links : Invoke([playlist_link |-> l, sync |-> FALSE])

\* youtube-sync --sync
SyncCmd == Invoke([playlist_link |-> None, sync |-> TRUE])

\* youtube-sync --init LINK --sync
InitSyncCmd == \E l \in Links : Invoke([playlist_link |-> l, sync |-> TRUE])

Exit ==
    /\ pc = "exit"
    /\ pc' = "shell"
    /\ run_log' = NoRun
    /\ UNCHANGED <<fs, remote, h_stable>>

Next ==
    \/ RemoteAdd
    \/ RemoteRemove
    \/ RemoteRename
    \/ InitCmd
    \/ SyncCmd
    \/ InitSyncCmd
    \/ Exit

Spec == Init /\ [][Next]_vars

\* --------------------------------------------- the folder touched by hand
\* A media file of the playlist folder disappears outside the tool (deleted or
\* moved by the user): glob.glob(path) of line 155 then finds no match.
LocalFileLost ==
    /\ pc = "shell"
    /\ \E m \in fs.media :
          /\ m[1] = PlaylistTitle
          /\ fs' = [fs EXCEPT !.media = @ \ {m}]
    /\ UNCHANGED <<remote, pc, run_log, h_stable>>

NextTouched ==
    \/ Next
    \/ LocalFileLost

SpecTouched == Init /\ [][NextTouched]_vars

\* ----------------------------------------------------------------- claims
\* What a sync that has just returned saw and left: the ledger it loaded, the
\* playlist the fetcher saw.
SyncReturned == pc = "exit" /\ run_log.cmd.sync
Completed == SyncReturned /\ run_log.outcome = "completed"
PreArchive == load_json(run_log.pre.sync_archive_json, <<>>)
SnapTitles == {run_log.snapshot[i].title : i \in DOMAIN run_log.snapshot}
SnapIds == {run_log.snapshot[i].id : i \in DOMAIN run_log.snapshot}
HasFile(f, title) == <<PlaylistTitle, title>> \in f.media
StoredLink(f) == DictGet(load_json(f.sync_config_conf, <<>>), "playlist_link", None)

\* C1: an entry (title -> id) of the Archive Ledger that a completed sync left,
\* whose playlist entry has been removed when the next sync runs (the playlist
\* holds no entry of that title and none of that id): once that sync completes
\* the title is no key of the persisted Archive Ledger, no line of the Download
\* Record Ledger carries its id, and its local file is gone.
C1_RemovedEntryPurged ==
    Completed =>
        \A e \in Entry :
            (Maps(PreArchive, e.title, e.id) /\ e.title \notin SnapTitles /\ e.id \notin SnapIds)
            => /\ e.title \notin Keys(Archive)
               /\ ~InList(e.id, fs.archive_txt.data)
               /\ ~HasFile(fs, e.title)

\* C1 witness: a completed sync that found the key, the line and the file of a
\* removed entry and purged them.
C1_Witness ==
    /\ Completed
    /\ \E e \in Entry :
          /\ e.title \notin SnapTitles /\ e.id \notin SnapIds
          /\ Maps(PreArchive, e.title, e.id)
          /\ InList(e.id, run_log.pre.archive_txt.data)
          /\ HasFile(run_log.pre, e.title)
          /\ ~HasFile(fs, e.title)

\* C2: a sync that completes right after a completed sync, the playlist not
\* having changed in between, leaves the Archive Ledger, the Download Record
\* Ledger and the local files as it found them.
C2_SyncIdempotent ==
    (Completed /\ run_log.stable) =>
        /\ AsMap(Archive) = AsMap(PreArchive)
        /\ fs.archive_txt = run_log.pre.archive_txt
        /\ fs.media = run_log.pre.media

\* C3: every playlist entry (title, id) that the Archive Ledger loaded by the
\* sync mapped title -> id is still mapped title -> id by the Archive Ledger the
\* sync persists.
C3_KnownEntryKeepsId ==
    Completed =>
        \A i \in DOMAIN run_log.snapshot :
            LET e == run_log.snapshot[i]
            IN  Maps(PreArchive, e.title, e.id) => Maps(Archive, e.title, e.id)

\* C4: init with a link on a folder whose stored Sync Config holds another link
\* leaves the new link stored, and the folder and the fetcher options file as
\* they were.
C4_InitStoresNewLink ==
    (/\ pc = "exit"
     /\ run_log.cmd.playlist_link # None
     /\ run_log.start.dir
     /\ run_log.start.sync_config_conf.exists
     /\ StoredLink(run_log.start) \notin {None, run_log.cmd.playlist_link})
    => /\ StoredLink(run_log.pre) = run_log.cmd.playlist_link
       /\ run_log.pre.dir
       /\ run_log.pre.ytdl_opts_conf = run_log.start.ytdl_opts_conf

\* C5: a sync called when the config folder exists and the stored Sync Config
\* holds no playlist link fails with NoPlaylistLink, does not invoke the fetcher,
\* and changes no file.
C5_NoLinkFails ==
    (/\ SyncReturned
     /\ run_log.pre.dir
     /\ StoredLink(run_log.pre) \in {None, ""})
    => /\ run_log.outcome = "NoPlaylistLink"
       /\ ~run_log.fetched
       /\ fs = run_log.pre

\* C6: a sync whose fetcher resolved a resource that is not of playlist type
\* fails with NotYoutubePlaylist; the Archive Ledger file is not rewritten and
\* no local file is deleted.
C6_NotAPlaylistFails ==
    (SyncReturned /\ run_log.fetched /\ run_log.meta_type # "playlist")
    => /\ run_log.outcome = "NotYoutubePlaylist"
       /\ fs.sync_archive_json = run_log.pre.sync_archive_json
       /\ run_log.pre.media \subseteq fs.media

\* C6 witness: such a sync on a folder that holds a persisted Archive Ledger and
\* local files.
C6_Witness ==
    /\ SyncReturned /\ run_log.fetched /\ run_log.meta_type # "playlist"
    /\ run_log.pre.sync_archive_json.exists
    /\ PreArchive # <<>>
    /\ run_log.pre.media # {}

\* C7: a sync, however it ends, leaves the Sync Config file and the fetcher
\* options file as it found them; the two files change only in an invocation
\* that runs init.
C7_OnlyInitWritesConfig ==
    [][/\ (pc' = "exit" /\ run_log'.cmd.sync)
          => /\ fs'.sync_config_conf = run_log'.pre.sync_config_conf
             /\ fs'.ytdl_opts_conf = run_log'.pre.ytdl_opts_conf
       /\ (\/ fs'.sync_config_conf # fs.sync_config_conf
           \/ fs'.ytdl_opts_conf # fs.ytdl_opts_conf)
          => (pc' = "exit" /\ run_log'.cmd.playlist_link # None)]_vars

\* C7 witness: a sync that ran the fetcher and the reconciler to the end with
\* both files present.
C7_Witness ==
    /\ Completed
    /\ run_log.fetched
    /\ fs.sync_config_conf.exists
    /\ fs.ytdl_opts_conf.exists
    /\ fs.media # run_log.pre.media

\* C8: after a completed sync every title of the playlist the fetcher saw that
\* was a key of the Archive Ledger before the sync, or that the sync downloaded
\* (its id was not yet in the Download Record Ledger), is a key of the persisted
\* Archive Ledger and has its local file.
C8_SnapshotTitlesKept ==
    Completed =>
        \A i \in DOMAIN run_log.snapshot :
            LET e == run_log.snapshot[i]
            IN  (\/ e.title \in Keys(PreArchive)
                 \/ ~in_download_archive(run_log.pre, e.id))
                => (e.title \in Keys(Archive) /\ HasFile(fs, e.title))

\* C9: after a completed sync every id on a line of the Download Record Ledger
\* is the value of some key of the persisted Archive Ledger.
C9_RecordedIdsInArchive ==
    Completed =>
        \A i \in DOMAIN fs.archive_txt.data :
            InList(fs.archive_txt.data[i], ListValues(Archive))

\* C10: after a completed sync every key of the persisted Archive Ledger has its
\* local media file (every download succeeds and only this tool touches the
\* folder, as in this model).
C10_ArchiveKeysHaveFiles ==
    Completed => \A k \in Keys(Archive) : HasFile(fs, k)

\* C10 witness: a completed sync that deleted the file of one title and kept
\* another title in the Archive Ledger.
C10_Witness ==
    /\ Completed
    /\ Keys(Archive) # {}
    /\ \E t \in Keys(PreArchive) : HasFile(run_log.pre, t) /\ ~HasFile(fs, t)

\* C11: a sync called when the config folder exists and the stored Sync Config
\* holds a playlist link invokes the fetcher, also when init created the folder
\* and stored the link earlier in the same invocation.
C11_SyncOnInitializedFolderRuns ==
    (/\ SyncReturned
     /\ run_log.pre.dir
     /\ StoredLink(run_log.pre) \notin {None, ""})
    => run_log.fetched

\* C12: a sync that ran the fetcher on a folder without a Download Record Ledger
\* file, the playlist being empty so that nothing is downloaded, completes and
\* leaves an empty Archive Ledger and an empty Download Record Ledger persisted.
C12_FirstSyncOfEmptyPlaylist ==
    (/\ SyncReturned
     /\ run_log.fetched
     /\ run_log.meta_type = "playlist"
     /\ run_log.snapshot = <<>>
     /\ ~run_log.pre.archive_txt.exists)
    => /\ run_log.outcome = "completed"
       /\ fs.sync_archive_json = write_json(<<>>)
       /\ fs.archive_txt = [exists |-> TRUE, data |-> <<>>]

\* The reconciler of the sync that has just returned rewrote archive.txt.
Rewrote == SyncReturned /\ run_log.outcome \in {"completed", "IndexError"}
\* The ids of the titles left in the removal working set.
WorkingSetIds == ListValues(run_log.remove_list)

\* C13: the reconciler's rewrite of the Download Record Ledger keeps exactly the
\* lines it read whose id is not the id of a title left in the removal working
\* set, in their original order, and adds no line.
C13_RewriteDropsWorkingSetIds ==
    Rewrote =>
        fs.archive_txt.data =
            SelectSeq(run_log.lines, LAMBDA id : ~InList(id, WorkingSetIds))

\* C13 witness: a rewrite that dropped one line and kept another.
C13_Witness ==
    /\ Rewrote
    /\ \E i, j \in DOMAIN run_log.lines :
          /\ InList(run_log.lines[i], WorkingSetIds)
          /\ ~InList(run_log.lines[j], WorkingSetIds)
          /\ ~InList(run_log.lines[i], fs.archive_txt.data)
          /\ InList(run_log.lines[j], fs.archive_txt.data)

\* The positions of the snapshot that hold an entry of title t.
SnapshotPositions(t) == {i \in DOMAIN run_log.snapshot : run_log.snapshot[i].title = t}
\* The last of them in snapshot order.
LastPosition(t) == CHOOSE i \in SnapshotPositions(t) : \A j \in SnapshotPositions(t) : j <= i

\* C14: when the playlist a completed sync saw holds two or more entries of one
\* title and the title is not in the removed set (what is left of the removal
\* working set), the persisted Archive Ledger maps the title to the id of the
\* last of these entries in snapshot order.  Stated for a sync that found the two
\* ledgers in agreement (every recorded id the value of a key).
C14_LastDuplicateWins ==
    (/\ Completed
     /\ \A i \in DOMAIN run_log.pre.archive_txt.data :
            InList(run_log.pre.archive_txt.data[i], ListValues(PreArchive)))
    => \A t \in Titles :
            (Cardinality(SnapshotPositions(t)) >= 2 /\ t \notin Keys(run_log.remove_list))
            => Maps(Archive, t, run_log.snapshot[LastPosition(t)].id)

\* The sync that has just returned aborted in the loop of line 155: no file
\* matched the path of a removed title.
DeleteFailed == SyncReturned /\ run_log.outcome = "IndexError"

\* C15: when deleting the local file of a removed title fails because no file
\* matches, sync aborts: the persisted Archive Ledger file is exactly as it was
\* before the sync and still holds every removed title, while the Download
\* Record Ledger has been rewritten and holds none of the removed ids.
C15_AbortKeepsLedgerDropsLines ==
    DeleteFailed =>
        /\ fs.sync_archive_json = run_log.pre.sync_archive_json
        /\ \A i \in DOMAIN run_log.remove_list :
              /\ Maps(Archive, run_log.remove_list[i][1], run_log.remove_list[i][2])
              /\ ~InList(run_log.remove_list[i][2], fs.archive_txt.data)

\* C15 witness: an aborted sync whose rewrite dropped the line of a removed id
\* that the reconciler had read.
C15_Witness ==
    /\ DeleteFailed
    /\ \E i \in DOMAIN run_log.remove_list :
          /\ InList(run_log.remove_list[i][2], run_log.lines)
          /\ ~InList(run_log.remove_list[i][2], fs.archive_txt.data)
          /\ ~HasFile(run_log.pre, run_log.remove_list[i][1])

\* C16: once the playlist stops changing, further syncs reach a fixed point in
\* which sync completes and the keys of the persisted Archive Ledger are the
\* titles of the playlist.  sync is a function of the directory and the
\* playlist, so a plain --sync that completes and leaves every file as it found
\* it is the fixed point all further syncs of the same playlist stay in: there
\* the keys of the Archive Ledger must be the titles the fetcher saw.
C16_FixedPointMirrorsPlaylist ==
    (/\ Completed
     /\ run_log.cmd.playlist_link = None
     /\ fs = run_log.start)
    => Keys(Archive) = SnapTitles

====
